---- MODULE Spec2Model ----
(***************************************************************************)
(* Model of the section integrator of structuralcodes:                     *)
(*   sections/_marin_integration.py   _coeff, marin_integration            *)
(*   sections/_section_integrators.py MarinIntegrator, IntegratorFactory   *)
(*   core/base.py                     ConstitutiveLaw                      *)
(*                                                                         *)
(* Numbers.  The inputs are integers.  Python evaluates the sums and       *)
(* products of marin_integration exactly on integers, and the final true   *)
(* division mom / d is modelled as the rational it denotes, kept as a      *)
(* reduced fraction <<num, den>> with den > 0.                             *)
(***************************************************************************)
EXTENDS Integers, Sequences, FiniteSets, TLC

VARIABLES
    pc,         \* position of the call under study: "call" or "done"
    y, z,       \* marin_integration: coordinates of the polygon vertices
    m, n,       \* marin_integration: degrees of the polynomial
    ret,        \* marin_integration: the returned value
    cache,      \* _coeff: the keys the memo holds, least recently used first
    misses,     \* _coeff: cache_info().misses, the number of insertions
    walk,       \* the (i, j, k) position of a running marin_integration
    registry,   \* integrator_registry: name -> integrator class
    instances,  \* IntegratorFactory.instances: name -> cached value
    returned,   \* the last value IntegratorFactory.__call__ returned
    constitutive_law_counter,   \* the class attribute, per class
    laws,       \* the ConstitutiveLaw instances constructed so far
    geo,        \* integrate_strain_response_on_geometry: the section
    strain,     \* integrate_strain_response_on_geometry: <<ea, ky, kz>>
    ext,        \* what the geometry engine answered during the call
    result      \* what the call returned or raised

marinVars == <<pc, y, z, m, n, ret>>
cacheVars == <<cache, misses, walk>>
factoryVars == <<registry, instances, returned>>
lawVars == <<constitutive_law_counter, laws>>
sectionVars == <<geo, strain, ext, result>>
vars == <<marinVars, cacheVars, factoryVars, lawVars, sectionVars>>

None == "None"

----------------------------------------------------------------------------
(* Bounds of the model                                                      *)

\* longest free vertex list drawn for marin_integration
MaxLen == 3

\* the vertices of the free vertex lists: the corners of a square, its
\* centre (the origin) and two points on its sides
Points ==
    {<<-1, -1>>, <<2, -1>>, <<2, 2>>, <<-1, 2>>, <<0, 0>>, <<0, 2>>, <<2, 0>>}

\* the degrees m and n
Orders == 0 .. 2

\* the corner coordinates of the axis-aligned rectangles
RectCoords == -1 .. 2

\* the degrees of the calls that fill the memo of _coeff
CacheOrders == {5, 6}

\* the numbers of polygon edges of the calls that fill the memo of _coeff
CacheEdges == {1, 2}

\* no call starts that could take cache_info().misses above this
MaxMisses == 220

\* the most ConstitutiveLaw instances constructed
MaxLaws == 4

\* the most point geometries (reinforcement bars) of a section
MaxPoints == 2

\* the most stress zones of the surface geometries of a section, all together
MaxZones == 2

----------------------------------------------------------------------------
(* Exact arithmetic                                                         *)

Abs(a) == IF a < 0 THEN -a ELSE a

Range(s) == {s[i] : i \in 1 .. Len(s)}

RECURSIVE GCD(_, _)
GCD(a, b) == IF b = 0 THEN a ELSE GCD(b, a % b)

\* the value of the true division a / b (b # 0), as a reduced fraction
Frac(a, b) ==
    LET s == IF b < 0 THEN -1 ELSE 1
        g == GCD(Abs(a), Abs(b))
    IN  <<(s * a) \div g, (s * b) \div g>>

RatAdd(p, q) == Frac(p[1] * q[2] + q[1] * p[2], p[2] * q[2])
RatMul(p, q) == Frac(p[1] * q[1], p[2] * q[2])
RatNeg(p) == <<-p[1], p[2]>>
RatInt(a) == <<a, 1>>

\* b ** e for an integer b and e >= 0 (Python: 0 ** 0 = 1)
RECURSIVE Pow(_, _)
Pow(b, e) == IF e = 0 THEN 1 ELSE b * Pow(b, e - 1)

RECURSIVE Factorial(_)
Factorial(a) == IF a <= 0 THEN 1 ELSE a * Factorial(a - 1)

\* math.comb(a, b) for a, b >= 0: zero when b > a
Comb(a, b) ==
    IF b > a THEN 0 ELSE Factorial(a) \div (Factorial(b) * Factorial(a - b))

----------------------------------------------------------------------------
(* _marin_integration.py                                                    *)

CoeffFirstBinomial(mm, nn, j, k) == Comb(j + k, j)

\* the value _coeff returns
CoeffValue(mm, nn, j, k) == Comb(j + k, j) * Comb(mm + nn - j - k, nn - k)

RECURSIVE SskUpTo(_, _, _, _, _, _)
\* ssk after the passes 0 .. k of the loop over k (i is the 1-based index of
\* the edge's first vertex)
SskUpTo(zz, mm, nn, i, j, k) ==
    IF k < 0 THEN 0
    ELSE SskUpTo(zz, mm, nn, i, j, k - 1)
           + CoeffValue(mm, nn, j, k) * Pow(zz[i], nn - k) * Pow(zz[i + 1], k)

\* the sum over k of one edge
Ssk(zz, mm, nn, i, j) == SskUpTo(zz, mm, nn, i, j, nn)

RECURSIVE SsjUpTo(_, _, _, _, _, _)
\* ssj after the passes 0 .. j of the loop over j
SsjUpTo(yy, zz, mm, nn, i, j) ==
    IF j < 0 THEN 0
    ELSE SsjUpTo(yy, zz, mm, nn, i, j - 1)
           + Ssk(zz, mm, nn, i, j) * Pow(yy[i], mm - j) * Pow(yy[i + 1], j)

\* the sum over j of one edge
Ssj(yy, zz, mm, nn, i) == SsjUpTo(yy, zz, mm, nn, i, mm)

EdgeTermPlus(yy, zz, mm, nn, i) ==
    Ssj(yy, zz, mm, nn, i) * (yy[i] * zz[i + 1] + yy[i + 1] * zz[i])

\* what one pass of the loop over i adds to mom
EdgeTerm(yy, zz, mm, nn, i) ==
    Ssj(yy, zz, mm, nn, i) * (yy[i] * zz[i + 1] - yy[i + 1] * zz[i])

\* the number of passes of "for i in range(len(y) - 1)"
Edges(yy) == IF Len(yy) = 0 THEN 0 ELSE Len(yy) - 1

RECURSIVE MomOver(_, _, _, _, _)
\* mom after the first cnt passes of the loop over i
MomOver(yy, zz, mm, nn, cnt) ==
    IF cnt <= 0 THEN 0
    ELSE MomOver(yy, zz, mm, nn, cnt - 1) + EdgeTerm(yy, zz, mm, nn, cnt)

\* the vertex list with its first vertex appended at the end
Closed(s) == IF Len(s) = 0 THEN s ELSE Append(s, s[1])

MomWrapping(yy, zz, mm, nn) ==
    MomOver(Closed(yy), Closed(zz), mm, nn, Len(yy))

\* mom, after the loop over i: consecutive pairs only, no pair (last, first)
Mom(yy, zz, mm, nn) == MomOver(yy, zz, mm, nn, Edges(yy))

DivisorSquare(mm, nn) == Comb(mm + nn, nn) * (mm + nn + 1) * (mm + nn + 1)

\* the divisor of the return statement
Divisor(mm, nn) == Comb(mm + nn, nn) * (mm + nn + 1) * (mm + nn + 2)

marin_integration(yy, zz, mm, nn) == Frac(Mom(yy, zz, mm, nn), Divisor(mm, nn))

----------------------------------------------------------------------------
(* The calls of marin_integration under study                               *)

\* every list of at most MaxLen vertices
FreeLists == UNION {[1 .. l -> Points] : l \in 0 .. MaxLen}

\* the closed counter-clockwise ring of the rectangle [y0, y1] x [z0, z1],
\* starting at its corner number r (0: lower left, then counter-clockwise)
RectRing(y0, y1, z0, z1, r) ==
    LET c == <<<<y0, z0>>, <<y1, z0>>, <<y1, z1>>, <<y0, z1>>>>
    IN  [i \in 1 .. 5 |-> c[((i - 1 + r) % 4) + 1]]

Rects ==
    {q \in RectCoords \X RectCoords \X RectCoords \X RectCoords :
        q[1] < q[2] /\ q[3] < q[4]}

RectRings == {RectRing(q[1], q[2], q[3], q[4], r) : q \in Rects, r \in 0 .. 3}

VertexLists == FreeLists \cup {Closed(v) : v \in FreeLists} \cup RectRings

Ys(v) == [i \in 1 .. Len(v) |-> v[i][1]]
Zs(v) == [i \in 1 .. Len(v) |-> v[i][2]]

\* no marin_integration call under study, and an empty memo
MarinOff == pc = "idle" /\ y = <<>> /\ z = <<>> /\ m = 0 /\ n = 0 /\ ret = None
\* the position of no running call (i counts the edges from 1)
NoWalk == [m |-> 0, n |-> 0, edges |-> 0, i |-> 0, j |-> 0, k |-> 0]
CacheOff == cache = <<>> /\ misses = 0 /\ walk = NoWalk

\* the factory as the module creates it (lines 220 and 243)
Absent == "absent"
IntegratorNames == {"Marin", "Fiber", "marin"}
IntegratorClasses == {"MarinIntegrator", "FiberIntegrator"}
NoValue == [kind |-> "none", of |-> "none"]
NoReturn == [method |-> "none", value |-> NoValue]
FactoryOff ==
    /\ registry = [nm \in IntegratorNames |->
                      IF nm = "Marin" THEN "MarinIntegrator" ELSE Absent]
    /\ instances = [nm \in IntegratorNames |-> NoValue]
    /\ returned = NoReturn

\* the classes of constitutive laws: the abstract base and concrete subclasses,
\* one of them a subclass of a subclass
LawBase == "ConstitutiveLaw"
LawClasses == {"Elastic", "ElasticPlastic", "ParabolaRectangle"}
LawParent(cls) == IF cls = "ElasticPlastic" THEN "Elastic" ELSE LawBase
Unset == -1
LawOff ==
    /\ constitutive_law_counter =
          [cls \in LawClasses \cup {LawBase} |-> IF cls = LawBase THEN 0 ELSE Unset]
    /\ laws = <<>>

\* no call of the section integrator under study
NoGeo == [surfaces |-> <<>>, points |-> <<>>]
NoExt == [split |-> <<>>, flat_is_ccw |-> FALSE]
NoResult == [status |-> "none", N |-> None, Mx |-> None, My |-> None]
SectionOff ==
    geo = NoGeo /\ strain = <<0, 0, 0>> /\ ext = NoExt /\ result = NoResult

InitMarin ==
    /\ CacheOff
    /\ FactoryOff
    /\ LawOff
    /\ SectionOff
    /\ pc = "call"
    /\ \E v \in VertexLists : y = Ys(v) /\ z = Zs(v)
    /\ m \in Orders
    /\ n \in Orders
    /\ ret = None

MarinIntegration ==
    /\ pc = "call"
    /\ ret' = marin_integration(y, z, m, n)
    /\ pc' = "done"
    /\ UNCHANGED <<y, z, m, n>>
    /\ UNCHANGED <<cacheVars, factoryVars, lawVars, sectionVars>>

NextMarin == MarinIntegration

SpecMarin == InitMarin /\ [][NextMarin]_vars

----------------------------------------------------------------------------
(* The memo of _coeff: functools.lru_cache with its default maxsize         *)

\* maxsize of "@functools.lru_cache" used without arguments
lru_maxsize == 128

Without(s, key) == SelectSeq(s, LAMBDA e : e # key)

LruUnbounded(c, key) == Append(Without(c, key), key)

\* the keys of the memo after a call with this key: a hit makes the key the
\* most recently used; a miss inserts it, and evicts the least recently used
\* key when the memo is full
LruAfterCall(c, key) ==
    IF key \in Range(c) THEN Append(Without(c, key), key)
    ELSE IF Len(c) >= lru_maxsize THEN Append(Tail(c), key)
    ELSE Append(c, key)

\* the position after (i, j, k) in the loops of marin_integration
WalkNext(w) ==
    IF w.k < w.n THEN [w EXCEPT !.k = w.k + 1]
    ELSE IF w.j < w.m THEN [w EXCEPT !.j = w.j + 1, !.k = 0]
    ELSE IF w.i < w.edges THEN [w EXCEPT !.i = w.i + 1, !.j = 0, !.k = 0]
    ELSE NoWalk

\* marin_integration(y, z, mm, nn) is called with a polygon of `edges` edges
BeginMarin(mm, nn, edges) ==
    /\ walk = NoWalk
    /\ misses + (mm + 1) * (nn + 1) <= MaxMisses
    /\ walk' = [m |-> mm, n |-> nn, edges |-> edges, i |-> 1, j |-> 0, k |-> 0]
    /\ UNCHANGED <<cache, misses>>

\* the call _coeff(m, n, j, k) of the innermost loop
CoeffCall ==
    /\ walk # NoWalk
    /\ LET key == <<walk.m, walk.n, walk.j, walk.k>>
       IN  /\ cache' = LruAfterCall(cache, key)
           /\ misses' = IF key \in Range(cache) THEN misses ELSE misses + 1
    /\ walk' = WalkNext(walk)

InitCache == MarinOff /\ CacheOff /\ FactoryOff /\ LawOff /\ SectionOff

NextCache ==
    \/ /\ \E mm \in CacheOrders, nn \in CacheOrders, edges \in CacheEdges :
              BeginMarin(mm, nn, edges)
       /\ UNCHANGED <<marinVars, factoryVars, lawVars, sectionVars>>
    \/ /\ CoeffCall
       /\ UNCHANGED <<marinVars, factoryVars, lawVars, sectionVars>>

SpecCache == InitCache /\ [][NextCache]_vars

\* C4 as claimed: the memo is append-only, every key that was ever inserted
\* is still present after any sequence of calls.
C4_NoKeyEverLeaves == [][Range(cache) \subseteq Range(cache')]_vars

\* C4 amended: the memo holds at most 128 keys (the default maxsize of
\* functools.lru_cache); no key leaves it while it holds fewer than 128, and
\* a call with a new key on a full memo evicts exactly the least recently
\* used key.
C4_EvictsOnlyLruWhenFull ==
    [][/\ Len(cache') <= lru_maxsize
       /\ \A key \in Range(cache) \ Range(cache') :
             Len(cache) = lru_maxsize /\ key = cache[1]]_vars

\* more keys were inserted than the memo holds: a key has been evicted
C4_Witness == misses > lru_maxsize /\ Len(cache) = lru_maxsize


----------------------------------------------------------------------------
(* Properties of marin_integration                                          *)

Zero == <<0, 1>>

Reverse(s) == [i \in 1 .. Len(s) |-> s[Len(s) + 1 - i]]

IsClosedRing(yy, zz) ==
    Len(yy) >= 2 /\ yy[1] = yy[Len(yy)] /\ zz[1] = zz[Len(zz)]

\* twice the signed area of the triangle of the vertices i, j, k
Cross(yy, zz, i, j, k) ==
    (yy[j] - yy[i]) * (zz[k] - zz[i]) - (yy[k] - yy[i]) * (zz[j] - zz[i])

\* all vertices on one line: the list encloses no area
Collinear(yy, zz) ==
    \A i, j, k \in 1 .. Len(yy) : Cross(yy, zz, i, j, k) = 0

\* three vertices off one line, the first not repeated as the last: the
\* simple polygons among the free vertex lists
UnclosedTriangle(yy, zz) == Len(yy) = 3 /\ Cross(yy, zz, 1, 2, 3) # 0

\* the term of the edge from the last vertex back to the first
ClosingTerm(yy, zz, mm, nn) ==
    EdgeTerm(Closed(yy), Closed(zz), mm, nn, Len(yy))

\* C1 as claimed: for a simple polygon, the vertex list without the repeated
\* first vertex gives the same value as the closed ring.
C1_UnclosedEqualsClosed ==
    (pc = "done" /\ UnclosedTriangle(y, z))
        => ret = marin_integration(Closed(y), Closed(z), m, n)

\* C1 amended: marin_integration sums the consecutive pairs only and does not
\* wrap, so the value for the closed ring is the value for the unclosed list
\* plus the term of the closing edge (last vertex to first) over the divisor.
C1_ClosedIsUnclosedPlusClosingEdge ==
    (pc = "done" /\ Len(y) >= 1)
        => marin_integration(Closed(y), Closed(z), m, n)
             = RatAdd(ret, Frac(ClosingTerm(y, z, m, n), Divisor(m, n)))

\* an unclosed triangle whose value differs from that of its closed ring
C1_Witness ==
    /\ pc = "done"
    /\ UnclosedTriangle(y, z)
    /\ ClosingTerm(y, z, m, n) # 0
    /\ ret # marin_integration(Closed(y), Closed(z), m, n)

\* C2 as claimed: the result is 0 for every order when the list has fewer
\* than 3 vertices or encloses zero area.
C2_FewVerticesOrZeroAreaGiveZero ==
    (pc = "done" /\ (Len(y) < 3 \/ Collinear(y, z))) => ret = Zero

\* C2 amended: the result is 0 for every order when the list has 0 or 1
\* vertices, or is a closed ring (first vertex repeated as the last) whose
\* vertices lie on one line.
C2_EmptySingleOrClosedFlatGiveZero ==
    (pc = "done" /\ (Len(y) <= 1 \/ (IsClosedRing(y, z) /\ Collinear(y, z))))
        => ret = Zero

\* a closed flat ring through three distinct vertices, at a degree above 0
C2_Witness ==
    /\ pc = "done"
    /\ Len(y) = 4 /\ IsClosedRing(y, z) /\ Collinear(y, z)
    /\ <<y[1], z[1]>> # <<y[2], z[2]>>
    /\ <<y[2], z[2]>> # <<y[3], z[3]>>
    /\ <<y[1], z[1]>> # <<y[3], z[3]>>
    /\ m = 1 /\ n = 2
    /\ ret = Zero

\* C6: the result for the reversed vertex list is the negation of the result
\* for the list itself, for every list and every pair of degrees.
C6_ReversalNegates ==
    pc = "done"
        => marin_integration(Reverse(y), Reverse(z), m, n) = RatNeg(ret)

\* a closed triangle with a positive second-degree moment
C6_Witness ==
    /\ pc = "done"
    /\ Len(y) = 4 /\ IsClosedRing(y, z)
    /\ m = 1 /\ n = 1
    /\ ret[1] > 0
    /\ marin_integration(Reverse(y), Reverse(z), m, n)[1] < 0

IsRectRing(yy, zz, q, r) ==
    /\ yy = Ys(RectRing(q[1], q[2], q[3], q[4], r))
    /\ zz = Zs(RectRing(q[1], q[2], q[3], q[4], r))

SeqMin(s) == CHOOSE a \in Range(s) : \A b \in Range(s) : a <= b
SeqMax(s) == CHOOSE a \in Range(s) : \A b \in Range(s) : a >= b

\* <<y0, y1, z0, z1>> of the smallest rectangle around the vertices
BoundingBox(yy, zz) == <<SeqMin(yy), SeqMax(yy), SeqMin(zz), SeqMax(zz)>>

RectArea(q) == (q[2] - q[1]) * (q[4] - q[3])

\* C7: for the closed counter-clockwise ring of the rectangle
\* [y0, y1] x [z0, z1], degrees (0, 0) give the area, (1, 0) give
\* area * (y0 + y1) / 2 and (0, 1) give area * (z0 + z1) / 2.
C7_RectangleMoments ==
    (pc = "done" /\ Len(y) = 5 /\ m + n <= 1) =>
      LET q == BoundingBox(y, z)
      IN  (q \in Rects /\ \E r \in 0 .. 3 : IsRectRing(y, z, q, r)) =>
            /\ (m = 0 /\ n = 0) => ret = RatInt(RectArea(q))
            /\ (m = 1 /\ n = 0) => ret = Frac(RectArea(q) * (q[1] + q[2]), 2)
            /\ (m = 0 /\ n = 1) => ret = Frac(RectArea(q) * (q[3] + q[4]), 2)

\* the unit square: its moment of degrees (1, 0) is 1/2
C7_Witness ==
    /\ pc = "done"
    /\ IsRectRing(y, z, <<0, 1, 0, 1>>, 0)
    /\ m = 1 /\ n = 0
    /\ ret = <<1, 2>>

\* the unit square: area 1 and the moment of degrees (0, 1) is 1/2
UnitSquareValues ==
    LET v == RectRing(0, 1, 0, 1, 0)
    IN  /\ marin_integration(Ys(v), Zs(v), 0, 0) = <<1, 1>>
        /\ marin_integration(Ys(v), Zs(v), 0, 1) = <<1, 2>>

----------------------------------------------------------------------------
(* _section_integrators.py: integrator_registry and IntegratorFactory       *)

\* a class object, and an instance of a class
ClassValue(cls) == [kind |-> "class", of |-> cls]
InstanceValue(cls) == [kind |-> "instance", of |-> cls]

\* self.registry.get(method, MarinIntegrator)
RegistryGet(method) ==
    IF registry[method] # Absent THEN ClassValue(registry[method])
    ELSE ClassValue("MarinIntegrator")

\* self.instances.setdefault(method, value): the entry is set only when the
\* key is missing
SetDefault(d, method, value) ==
    IF d[method] # NoValue THEN d ELSE [d EXCEPT ![method] = value]

\* IntegratorFactory.__call__(method)
FactoryCall(method) ==
    /\ instances' = SetDefault(instances, method, RegistryGet(method))
    /\ returned' = [method |-> method, value |-> instances'[method]]
    /\ UNCHANGED registry

\* integrator_registry[name] = cls: the module-level dict the factory holds
RegistryAdd(name, cls) ==
    /\ registry' = [registry EXCEPT ![name] = cls]
    /\ UNCHANGED <<instances, returned>>

InitFactory == MarinOff /\ CacheOff /\ FactoryOff /\ LawOff /\ SectionOff

NextFactory ==
    \/ /\ \E method \in IntegratorNames : FactoryCall(method)
       /\ UNCHANGED <<marinVars, cacheVars, lawVars, sectionVars>>
    \/ /\ \E name \in IntegratorNames, cls \in IntegratorClasses :
              RegistryAdd(name, cls)
       /\ UNCHANGED <<marinVars, cacheVars, lawVars, sectionVars>>

SpecFactory == InitFactory /\ [][NextFactory]_vars

\* C5: the value __call__ returns is an instance of the integrator
\* implementation (not the class itself), and it is the value cached under
\* that name, so that every later call with the name returns it again.
C5_ReturnsCachedInstance ==
    returned # NoReturn =>
        /\ returned.value.kind = "instance"
        /\ returned.value = instances[returned.method]

\* what the code does keep: once a name is cached, the cached value never
\* changes, and each call returns the cached value
CacheIsStable ==
    [][/\ \A nm \in IntegratorNames :
            instances[nm] # NoValue => instances'[nm] = instances[nm]
       /\ returned'.method # "none" =>
            returned'.value = instances'[returned'.method]]_vars

\* C11: after any interleaving of additions to the registry and calls to the
\* factory, a call __call__(method) returns the implementation the registry
\* maps the name to at the time of the call, and the default MarinIntegrator
\* only if the name is absent from the registry at that time.
C11_ReturnsCurrentRegistryEntry ==
    [][\A method \in IntegratorNames :
            FactoryCall(method) => returned'.value = RegistryGet(method)]_vars

----------------------------------------------------------------------------
(* core/base.py: ConstitutiveLaw                                            *)

RECURSIVE CounterOf(_, _)
\* self.constitutive_law_counter / cls.constitutive_law_counter: the attribute
\* of the nearest class of the instance's class hierarchy that has it set
CounterOf(counter, cls) ==
    IF counter[cls] # Unset THEN counter[cls]
    ELSE CounterOf(counter, LawParent(cls))

\* f"ConstitutiveLaw_{self.id}"
DefaultName(id) == "ConstitutiveLaw_" \o ToString(id)

LawNames == {None, "concrete"}

\* cls(name): ConstitutiveLaw.__init__ run for an instance of the concrete
\* class cls; the augmented assignment of _increase_global_counter reads the
\* inherited attribute and binds the result on cls itself
Construct(cls, name) ==
    /\ Len(laws) < MaxLaws
    /\ LET id == CounterOf(constitutive_law_counter, cls)
       IN  /\ laws' = Append(laws,
                        [cls |-> cls, id |-> id,
                         name |-> IF name # None THEN name ELSE DefaultName(id),
                         named |-> name # None])
           /\ constitutive_law_counter' =
                 [constitutive_law_counter EXCEPT ![cls] = id + 1]

InitLaw == MarinOff /\ CacheOff /\ FactoryOff /\ LawOff /\ SectionOff

NextLaw ==
    /\ \E cls \in LawClasses, name \in LawNames : Construct(cls, name)
    /\ UNCHANGED <<marinVars, cacheVars, factoryVars, sectionVars>>

SpecLaw == InitLaw /\ [][NextLaw]_vars

\* C10: no two constructed instances have the same id, and no two default
\* names ConstitutiveLaw_<id> coincide, whatever the mix of subclasses.
C10_IdsAreUnique ==
    \A a, b \in 1 .. Len(laws) :
        a # b =>
            /\ laws[a].id # laws[b].id
            /\ (~laws[a].named /\ ~laws[b].named) => laws[a].name # laws[b].name

\* what the code does keep: the instances of one and the same class have
\* distinct ids
UniqueWithinClass ==
    \A a, b \in 1 .. Len(laws) :
        (a # b /\ laws[a].cls = laws[b].cls) => laws[a].id # laws[b].id

----------------------------------------------------------------------------
(* _section_integrators.py: MarinIntegrator                                 *)
(*                                                                         *)
(* The strain components are Python numbers with integer values, and the   *)
(* curvature vector lies along an axis, so that its norm is an integer and *)
(* the rotation angle a multiple of a quarter turn; cos and sin take their *)
(* exact values there.  CompoundGeometry.rotate, split_two_lines and the   *)
(* materials' __marin__ and get_stress belong to collaborators outside     *)
(* these files: the answers of the geometry engine are drawn from          *)
(* SplitResults in each call.                                               *)

Ring(yy, zz) == [y |-> yy, z |-> zz]

ReverseRing(r) == Ring(Reverse(r.y), Reverse(r.z))

\* the square [-2, 2] x [-2, 2], the square [-1, 1] x [-1, 1] inside it, and
\* a ring that encloses no area
OuterCCW == Ring(<<-2, 2, 2, -2, -2>>, <<-2, -2, 2, 2, -2>>)
HoleCCW == Ring(<<-1, 1, 1, -1, -1>>, <<-1, -1, 1, 1, -1>>)
FlatRing == Ring(<<-1, 1, 0, -1>>, <<0, 0, 0, 0>>)

Polygon(exterior, interiors) ==
    [exterior |-> exterior, interiors |-> interiors]

\* the sub-polygons the engine may return for one zone
SubPolygons ==
    { Polygon(ReverseRing(OuterCCW), <<HoleCCW>>),
      Polygon(OuterCCW, <<ReverseRing(HoleCCW), FlatRing>>),
      Polygon(FlatRing, <<>>) }

\* the results of g.split_two_lines(lines): a Polygon, a MultiPolygon, or a
\* geometry of another type (an empty intersection, a line)
SplitResults ==
    {[kind |-> "Polygon", geoms |-> <<q>>] : q \in SubPolygons}
        \cup {[kind |-> "MultiPolygon",
               geoms |-> <<Polygon(HoleCCW, <<>>),
                           Polygon(OuterCCW, <<ReverseRing(HoleCCW)>>)>>],
              [kind |-> "Other", geoms |-> <<>>]}

RECURSIVE ShoelaceUpTo(_, _)
ShoelaceUpTo(r, i) ==
    IF i <= 0 THEN 0
    ELSE ShoelaceUpTo(r, i - 1) + (r.y[i] * r.z[i + 1] - r.y[i + 1] * r.z[i])

\* twice shapely's signed_area(ring)
SignedArea2(r) == ShoelaceUpTo(r, Len(r.y) - 1)

OrientKeepsHoles(polygon) ==
    Polygon(IF SignedArea2(polygon.exterior) >= 0 THEN polygon.exterior
            ELSE ReverseRing(polygon.exterior),
            polygon.interiors)

\* shapely.geometry.polygon.orient(polygon, 1): the exterior is reversed when
\* its signed area is negative, a hole when its signed area is positive
Orient(polygon) ==
    Polygon(IF SignedArea2(polygon.exterior) >= 0 THEN polygon.exterior
            ELSE ReverseRing(polygon.exterior),
            [h \in 1 .. Len(polygon.interiors) |->
                IF SignedArea2(polygon.interiors[h]) <= 0
                THEN polygon.interiors[h]
                ELSE ReverseRing(polygon.interiors[h])])

\* ring.is_ccw; for a ring that encloses no area the engine's answer is not
\* determined by the orientation
IsCcw(r, flat_is_ccw) ==
    IF SignedArea2(r) # 0 THEN SignedArea2(r) > 0 ELSE flat_is_ccw

SurfaceZone(r, coeffs) == [tag |-> 0, y |-> r.y, z |-> r.z, coeff |-> coeffs]

\* get_input_polygon(polygon, coeffs): the zones it appends to prepared_input,
\* or the ValueError it raises
GetInputPolygon(polygon, coeffs, flat_is_ccw) ==
    LET o == Orient(polygon)
    IN  IF ~IsCcw(o.exterior, flat_is_ccw)
        THEN [error |-> TRUE, zones |-> <<>>]
        ELSE IF \E h \in 1 .. Len(o.interiors) : IsCcw(o.interiors[h], flat_is_ccw)
        THEN [error |-> TRUE, zones |-> <<>>]
        ELSE [error |-> FALSE,
              zones |-> <<SurfaceZone(o.exterior, coeffs)>>
                          \o [h \in 1 .. Len(o.interiors) |->
                                 SurfaceZone(o.interiors[h], coeffs)]]

RECURSIVE SplitInput(_, _, _, _)
\* the zones of the first cnt polygons of a split result (lines 139-145)
SplitInput(res, coeffs, flat_is_ccw, cnt) ==
    IF cnt = 0 THEN [error |-> FALSE, zones |-> <<>>]
    ELSE LET before == SplitInput(res, coeffs, flat_is_ccw, cnt - 1)
             this == GetInputPolygon(res.geoms[cnt], coeffs, flat_is_ccw)
         IN  IF before.error \/ this.error
             THEN [error |-> TRUE, zones |-> <<>>]
             ELSE [error |-> FALSE, zones |-> before.zones \o this.zones]

\* strains[p] and coeffs[p] of material.__marin__: zone p of a material
ZoneOf(p) ==
    [lo |-> p - 2, hi |-> p - 1,
     coeffs |-> IF p % 3 = 1 THEN <<3>>
                ELSE IF p % 3 = 2 THEN <<1, 2>>
                ELSE <<0, 1, 1>>]

StressLaws == {"constant10", "elastic2"}

\* material.get_stress(eps)[0]
GetStress(law, eps) == IF law = "constant10" THEN 10 ELSE 2 * eps

RECURSIVE ZoneCoeffs(_, _)
\* the coefficient vectors of the zones of the first cnt surface geometries,
\* in the order of the loops of lines 95 and 100
ZoneCoeffs(surfaces, cnt) ==
    IF cnt = 0 THEN <<>>
    ELSE ZoneCoeffs(surfaces, cnt - 1)
           \o [p \in 1 .. Len(surfaces[cnt].zones) |->
                  surfaces[cnt].zones[p].coeffs]

RECURSIVE SurfaceInput(_, _, _)
\* prepared_input after the first cnt zones
SurfaceInput(coeffs, e, cnt) ==
    IF cnt = 0 THEN [error |-> FALSE, zones |-> <<>>]
    ELSE LET before == SurfaceInput(coeffs, e, cnt - 1)
             this == SplitInput(e.split[cnt], coeffs[cnt], e.flat_is_ccw,
                                Len(e.split[cnt].geoms))
         IN  IF before.error \/ this.error
             THEN [error |-> TRUE, zones |-> <<>>]
             ELSE [error |-> FALSE, zones |-> before.zones \o this.zones]

\* atan2(kz, ky) in quarter turns, for a curvature vector along an axis
\* (atan2(0, 0) is 0)
Atan2Quarters(kz, ky) ==
    IF kz = 0 THEN (IF ky >= 0 THEN 0 ELSE 2)
    ELSE IF kz > 0 THEN 1 ELSE -1

CosQuarters(q) == IF q = 0 THEN 1 ELSE IF q = 2 THEN -1 ELSE 0
SinQuarters(q) == IF q = 1 THEN 1 ELSE IF q = -1 THEN -1 ELSE 0

\* a ** 0.5 for a perfect square a
Sqrt(a) == CHOOSE r \in 0 .. a : r * r = a

\* the coordinates of a point geometry of geo.rotate(angle): every coordinate
\* is turned by -angle, which brings the neutral axis to the horizontal
RotatePoint(pg, q) ==
    [pg EXCEPT !.y = pg.y * CosQuarters(q) + pg.z * SinQuarters(q),
               !.z = -pg.y * SinQuarters(q) + pg.z * CosQuarters(q)]

PointZoneKappaPlus(points, q, e0, kappa) ==
    LET rot == [i \in 1 .. Len(points) |-> RotatePoint(points[i], q)]
    IN  [tag |-> 1,
         y |-> [i \in 1 .. Len(points) |-> rot[i].y],
         z |-> [i \in 1 .. Len(points) |-> rot[i].z],
         coeff |-> [i \in 1 .. Len(points) |->
                       GetStress(rot[i].law, e0 + kappa * rot[i].z)
                           * rot[i].area]]

\* the tuple (1, x, y, F) of the point geometries (lines 147-159)
PointZone(points, q, e0, kappa) ==
    LET rot == [i \in 1 .. Len(points) |-> RotatePoint(points[i], q)]
    IN  [tag |-> 1,
         y |-> [i \in 1 .. Len(points) |-> rot[i].y],
         z |-> [i \in 1 .. Len(points) |-> rot[i].z],
         coeff |-> [i \in 1 .. Len(points) |->
                       GetStress(rot[i].law, e0 - kappa * rot[i].z)
                           * rot[i].area]]

\* MarinIntegrator.prepare_input(geo, strain).  With zero curvature the first
\* zone of the first surface geometry divides by strain_rotated[1] = 0.0.
PrepareInput(g, s, e) ==
    LET angle == Atan2Quarters(s[3], s[2])
        kappa == Sqrt(s[3] * s[3] + s[2] * s[2])
        coeffs == ZoneCoeffs(g.surfaces, Len(g.surfaces))
    IN  IF Len(coeffs) > 0 /\ kappa = 0
        THEN [status |-> "ZeroDivisionError", angle |-> angle, zones |-> <<>>]
        ELSE LET surf == SurfaceInput(coeffs, e, Len(coeffs))
             IN  IF surf.error
                 THEN [status |-> "ValueError", angle |-> angle, zones |-> <<>>]
                 ELSE [status |-> "ok", angle |-> angle,
                       zones |-> Append(surf.zones,
                                        PointZone(g.points, angle, s[1], kappa))]

RECURSIVE RatSum(_, _)
\* f[1] + ... + f[cnt] of a sequence of fractions
RatSum(f, cnt) == IF cnt = 0 THEN Zero ELSE RatAdd(RatSum(f, cnt - 1), f[cnt])

\* sum(stress_coeff * area_moments) with area_moments[k] the moment of
\* degrees (mm, k + dn) of the zone, k = 0 .. n - 1
ZoneSum(zone, mm, dn) ==
    RatSum([k \in 1 .. Len(zone.coeff) |->
               RatMul(RatInt(zone.coeff[k]),
                      marin_integration(zone.y, zone.z, mm, k - 1 + dn))],
           Len(zone.coeff))

\* sum(stress_coeff * w) for a point zone
PointSum(zone, w) ==
    RatSum([k \in 1 .. Len(zone.coeff) |-> RatInt(zone.coeff[k] * w[k])],
           Len(zone.coeff))

Ones(zone) == [k \in 1 .. Len(zone.coeff) |-> 1]

RECURSIVE ResultantsSwapped(_, _)
ResultantsSwapped(zones, cnt) ==
    IF cnt = 0 THEN [N |-> Zero, Mx |-> Zero, My |-> Zero]
    ELSE LET before == ResultantsSwapped(zones, cnt - 1)
             zone == zones[cnt]
         IN  IF zone.tag = 0
             THEN [N |-> RatAdd(before.N, ZoneSum(zone, 0, 0)),
                   Mx |-> RatAdd(before.Mx, ZoneSum(zone, 0, 1)),
                   My |-> RatAdd(before.My, ZoneSum(zone, 1, 0))]
             ELSE [N |-> RatAdd(before.N, PointSum(zone, Ones(zone))),
                   Mx |-> RatAdd(before.Mx, PointSum(zone, zone.y)),
                   My |-> RatAdd(before.My, PointSum(zone, zone.z))]

RECURSIVE Resultants(_, _)
\* N, Mx, My after the first cnt entries of prepared_input (lines 172-199)
Resultants(zones, cnt) ==
    IF cnt = 0 THEN [N |-> Zero, Mx |-> Zero, My |-> Zero]
    ELSE LET before == Resultants(zones, cnt - 1)
             zone == zones[cnt]
         IN  IF zone.tag = 0
             THEN [N |-> RatAdd(before.N, ZoneSum(zone, 0, 0)),
                   Mx |-> RatAdd(before.Mx, ZoneSum(zone, 0, 1)),
                   My |-> RatAdd(before.My, ZoneSum(zone, 1, 0))]
             ELSE [N |-> RatAdd(before.N, PointSum(zone, Ones(zone))),
                   Mx |-> RatAdd(before.Mx, PointSum(zone, zone.z)),
                   My |-> RatAdd(before.My, PointSum(zone, zone.y))]

\* MarinIntegrator.integrate(angle, prepared_input): the sums, then the
\* moments turned back by T = [[cos, sin], [-sin, cos]]
Integrate(angle, zones) ==
    LET r == Resultants(zones, Len(zones))
        c == RatInt(CosQuarters(angle))
        sn == RatInt(SinQuarters(angle))
    IN  [status |-> "ok",
         N |-> r.N,
         Mx |-> RatAdd(RatMul(c, r.Mx), RatMul(sn, r.My)),
         My |-> RatAdd(RatMul(RatNeg(sn), r.Mx), RatMul(c, r.My))]

\* MarinIntegrator.integrate_strain_response_on_geometry(geo, strain): an
\* exception of prepare_input propagates to the caller
IntegrateStrainResponse(g, s, e) ==
    LET prepared == PrepareInput(g, s, e)
    IN  IF prepared.status # "ok"
        THEN [status |-> prepared.status, N |-> None, Mx |-> None, My |-> None]
        ELSE Integrate(prepared.angle, prepared.zones)

----------------------------------------------------------------------------
(* The calls of integrate_strain_response_on_geometry under study           *)

PointGeometries ==
    {[y |-> q[1], z |-> q[2], area |-> q[3], law |-> law] :
        q \in {<<2, 3, 1>>, <<-1, 1, 2>>}, law \in StressLaws}

\* a surface geometry: its polygon and the zones and stress law of its material
SurfaceGeometries ==
    {[polygon |-> OuterCCW, law |-> "constant10",
      zones |-> [p \in 1 .. k |-> ZoneOf(p)]] : k \in 1 .. MaxZones}

SeqsUpTo(S, k) == UNION {[1 .. l -> S] : l \in 0 .. k}

NumZones(surfaces) == Len(ZoneCoeffs(surfaces, Len(surfaces)))

\* sections of point geometries alone, and sections of surface geometries
\* without or with one reinforcement bar
Sections ==
    {[surfaces |-> <<>>, points |-> pts] :
        pts \in SeqsUpTo(PointGeometries, MaxPoints)}
      \cup
    {[surfaces |-> sf, points |-> pts] :
        sf \in {q \in SeqsUpTo(SurfaceGeometries, MaxZones) :
                   Len(q) >= 1 /\ NumZones(q) <= MaxZones},
        pts \in {<<>>, <<[y |-> 2, z |-> 3, area |-> 1, law |-> "elastic2"]>>}}

Strains ==
    {<<ea, k[1], k[2]>> :
        ea \in {0, 2},
        k \in {<<0, 0>>, <<1, 0>>, <<-1, 0>>, <<0, 2>>, <<0, -1>>}}

\* what the engine may answer in a call on the section g
Answers(g) ==
    {[split |-> sp, flat_is_ccw |-> f] :
        sp \in [1 .. NumZones(g.surfaces) -> SplitResults], f \in BOOLEAN}

InitSection ==
    /\ MarinOff /\ CacheOff /\ FactoryOff /\ LawOff
    /\ geo \in Sections
    /\ strain \in Strains
    /\ ext = NoExt
    /\ result = NoResult

IntegrateStrainResponseOnGeometry ==
    /\ result = NoResult
    /\ \E e \in Answers(geo) :
          /\ ext' = e
          /\ result' = IntegrateStrainResponse(geo, strain, e)
    /\ UNCHANGED <<geo, strain>>
    /\ UNCHANGED <<marinVars, cacheVars, factoryVars, lawVars>>

NextSection == IntegrateStrainResponseOnGeometry

SpecSection == InitSection /\ [][NextSection]_vars

----------------------------------------------------------------------------
(* Properties of the section integrator                                     *)

Done == result # NoResult

ZeroCurvature == strain[2] = 0 /\ strain[3] = 0

RECURSIVE IntSum(_, _)
IntSum(f, cnt) == IF cnt = 0 THEN 0 ELSE IntSum(f, cnt - 1) + f[cnt]

\* sigma(e) * area of every surface geometry, summed
UniformAxialForce(g, e) ==
    IntSum([i \in 1 .. Len(g.surfaces) |->
               GetStress(g.surfaces[i].law, e)
                   * (SignedArea2(g.surfaces[i].polygon) \div 2)],
           Len(g.surfaces))

\* C3: with both curvatures zero and at least one surface geometry the call
\* does not raise: it returns N = sigma(e) * totalArea and Mx = My = 0 (stated
\* for the sections without reinforcement, whose surfaces are centred).
C3_ZeroCurvatureUniformPath ==
    (Done /\ ZeroCurvature /\ Len(geo.surfaces) >= 1) =>
        /\ result.status = "ok"
        /\ geo.points = <<>> =>
              /\ result.N = RatInt(UniformAxialForce(geo, strain[1]))
              /\ result.Mx = Zero
              /\ result.My = Zero

\* the force of point geometry i under the strain plane, unrotated:
\* stress(ea - ky * z_i) * area_i
PointForce(g, s, i) ==
    GetStress(g.points[i].law, s[1] - s[2] * g.points[i].z) * g.points[i].area

\* C8: for a section of point geometries only and a rotation angle of 0,
\* N = sum F_i, Mx = sum F_i * z_i and My = sum F_i * y_i, with
\* F_i = stress(strain at point i) * area_i.
C8_PointResultants ==
    (Done /\ geo.surfaces = <<>> /\ strain[3] = 0 /\ strain[2] >= 0) =>
        LET cnt == Len(geo.points)
            F == [i \in 1 .. cnt |-> PointForce(geo, strain, i)]
        IN  /\ result.status = "ok"
            /\ result.N = RatInt(IntSum(F, cnt))
            /\ result.Mx =
                 RatInt(IntSum([i \in 1 .. cnt |-> F[i] * geo.points[i].z], cnt))
            /\ result.My =
                 RatInt(IntSum([i \in 1 .. cnt |-> F[i] * geo.points[i].y], cnt))

\* the single bar at (y = 2, z = 3) of area 1 and constant stress 10
C8_Witness ==
    /\ geo = [surfaces |-> <<>>,
              points |-> <<[y |-> 2, z |-> 3, area |-> 1, law |-> "constant10"]>>]
    /\ strain = <<2, 1, 0>>
    /\ result = [status |-> "ok", N |-> <<10, 1>>, Mx |-> <<30, 1>>,
                 My |-> <<20, 1>>]

\* the sub-polygons the engine returned for the zones of the call
ClippedPolygons ==
    UNION {Range(ext.split[j].geoms) : j \in 1 .. Len(ext.split)}

HasCcwHole(polygon) ==
    \E h \in 1 .. Len(polygon.interiors) : SignedArea2(polygon.interiors[h]) > 0

\* a ring that encloses no area and that is_ccw reports on the wrong side
FailsAfterOrient(polygon) ==
    \/ SignedArea2(polygon.exterior) = 0 /\ ~ext.flat_is_ccw
    \/ \E h \in 1 .. Len(polygon.interiors) :
          SignedArea2(polygon.interiors[h]) = 0 /\ ext.flat_is_ccw

\* C9 as claimed: whenever a sub-polygon produced by clipping has a
\* counter-clockwise hole, the call aborts with ValueError and returns nothing.
C9_CcwHoleAborts ==
    (Done /\ ~ZeroCurvature /\ \E q \in ClippedPolygons : HasCcwHole(q)) =>
        result.status = "ValueError" /\ result.N = None

\* C9 amended: get_input_polygon first re-orients the sub-polygon with
\* orient(polygon, 1), so a hole that comes counter-clockwise out of clipping
\* is turned clockwise and accepted.  The call aborts with ValueError, and
\* returns nothing, exactly when a ring still fails the orientation test after
\* orient, which only a ring that encloses no area can do.
C9_AbortsOnlyOnRingsOrientCannotFix ==
    (Done /\ ~ZeroCurvature) =>
        /\ result.status = "ValueError"
              <=> \E q \in ClippedPolygons : FailsAfterOrient(q)
        /\ result.status = "ValueError"
              => result.N = None /\ result.Mx = None /\ result.My = None

\* a clipped sub-polygon with a counter-clockwise hole, and the call returned
C9_Witness ==
    /\ Done /\ ~ZeroCurvature
    /\ \E q \in ClippedPolygons : HasCcwHole(q)
    /\ result.status = "ok"

====
